---------------------------- MODULE Spec2Model ----------------------------
(***************************************************************************)
(* Model of media-renamer.py: parse_filename, get_filename_format,         *)
(* get_unique_filepath and rename_files.                                   *)
(*                                                                         *)
(* A filename is a sequence of one-character strings, so that the regular  *)
(* expression, int(), the f-string formatting and pathlib's stem/suffix    *)
(* are computed character by character as the code computes them.          *)
(***************************************************************************)
EXTENDS Integers, Sequences, FiniteSets, TLC

(***************************************************************************)
(* Characters                                                              *)
(***************************************************************************)
DigitSeq == <<"0", "1", "2", "3", "4", "5", "6", "7", "8", "9">>

UpperSeq == <<"A", "B", "C", "D", "E", "F", "G", "H", "I", "J", "K", "L", "M",
              "N", "O", "P", "Q", "R", "S", "T", "U", "V", "W", "X", "Y", "Z">>

LowerSeq == <<"a", "b", "c", "d", "e", "f", "g", "h", "i", "j", "k", "l", "m",
              "n", "o", "p", "q", "r", "s", "t", "u", "v", "w", "x", "y", "z">>

Range(f) == {f[i] : i \in DOMAIN f}

\* \d of the regular expression (ASCII part)
Digits == Range(DigitSeq)

\* \w of the regular expression (ASCII part): letters, digits and underscore
WordChars == Digits \cup Range(UpperSeq) \cup Range(LowerSeq) \cup {"_"}

\* value of one digit character
DigitVal(c) == (CHOOSE i \in DOMAIN DigitSeq : DigitSeq[i] = c) - 1

\* str.lower() on one character
LowerChar(c) ==
    IF c \in Range(UpperSeq)
    THEN LowerSeq[CHOOSE i \in DOMAIN UpperSeq : UpperSeq[i] = c]
    ELSE c

\* str.lower()
Lower(s) == [i \in DOMAIN s |-> LowerChar(s[i])]

\* the `in` operator on strings: sub occurs somewhere in s
Contains(s, sub) ==
    \E i \in 1..(Len(s) - Len(sub) + 1) : SubSeq(s, i, i + Len(sub) - 1) = sub

\* int() applied to a string: defined on non-empty digit strings only
IsInt(s) == Len(s) > 0 /\ \A i \in DOMAIN s : s[i] \in Digits

RECURSIVE IntOf(_)
IntOf(s) ==
    IF s = <<>> THEN 0
    ELSE 10 * IntOf(SubSeq(s, 1, Len(s) - 1)) + DigitVal(s[Len(s)])

\* the decimal digits of a natural number
RECURSIVE Decimal(_)
Decimal(n) ==
    IF n < 10 THEN <<DigitSeq[n + 1]>>
    ELSE Decimal(n \div 10) \o <<DigitSeq[(n % 10) + 1]>>

RECURSIVE ZeroPad(_, _)
ZeroPad(s, width) == IF Len(s) >= width THEN s ELSE ZeroPad(<<"0">> \o s, width)

\* the format specification {n:0<width>d}
Fmt(n, width) == ZeroPad(Decimal(n), width)

(***************************************************************************)
(* pathlib: PurePath.suffix and PurePath.stem of a final path component    *)
(***************************************************************************)
\* str.rfind('.') as a 1-based index, 0 when there is no dot
RFindDot(name) ==
    IF \E i \in DOMAIN name : name[i] = "."
    THEN CHOOSE i \in DOMAIN name :
            name[i] = "." /\ \A j \in DOMAIN name : name[j] = "." => j <= i
    ELSE 0

\* the name cut at its last dot, at index i: "if 0 < i < len(name) - 1"
SuffixAt(name, i) == IF 1 < i /\ i < Len(name) THEN SubSeq(name, i, Len(name)) ELSE <<>>

StemAt(name, i) == IF 1 < i /\ i < Len(name) THEN SubSeq(name, 1, i - 1) ELSE name

Suffix(name) == SuffixAt(name, RFindDot(name))

Stem(name) == StemAt(name, RFindDot(name))

\* s[1:]
DropFirst(s) == IF s = <<>> THEN <<>> ELSE Tail(s)

(***************************************************************************)
(* The regular expression of parse_filename: nine alternatives, each a     *)
(* sequence of tokens.  L: a literal, D: (\d{n}), DP: (\d+), W: (\w{n}),   *)
(* WP: (\w+).  Every token but a literal is a capturing group.             *)
(***************************************************************************)
L(s) == [t |-> "lit", s |-> s, n |-> 0]
D(n) == [t |-> "d", s |-> <<>>, n |-> n]
W(n) == [t |-> "w", s |-> <<>>, n |-> n]
DP   == [t |-> "d+", s |-> <<>>, n |-> 1]
WP   == [t |-> "w+", s |-> <<>>, n |-> 1]

Dash == L(<<"-">>)
Dot == L(<<".">>)
Space == L(<<" ">>)
Under == L(<<"_">>)
IMG == L(<<"I", "M", "G", "_">>)
PXL == L(<<"P", "X", "L", "_">>)
VID == L(<<"V", "I", "D", "_">>)
Screenshot == L(<<"S", "c", "r", "e", "e", "n", "s", "h", "o", "t", " ",
                  "f", "r", "o", "m", " ">>)

pattern ==
    << <<D(4), Dash, D(2), Dash, D(2), Space, D(2), Dot, D(2), Dot, D(2), Dot, WP>>,
       <<IMG, D(4), D(2), D(2), Under, D(2), D(2), D(2), Under, DP, Dot, WP>>,
       <<PXL, D(4), D(2), D(2), Under, D(2), D(2), D(2), DP, Dot, WP>>,
       <<Screenshot, D(4), Dash, D(2), Dash, D(2), Space,
         D(2), Dash, D(2), Dash, D(2), Dot, WP>>,
       <<VID, D(4), D(2), D(2), Under, W(2), D(4), Dot, WP>>,
       <<PXL, D(4), D(2), D(2), Under, D(2), D(2), D(2), D(3), Dot, WP>>,
       <<IMG, D(4), Dash, D(2), Dash, D(2), Dash, D(2), Dash, D(2), Dash, D(2),
         Dash, D(3), Dot, WP>>,
       <<IMG, D(4), Dash, D(2), Dash, D(2), Dash, D(2), Dash, D(2), Dash, D(2),
         Dash, D(3), Dash, DP, Dot, WP>>,
       <<D(4), Dash, D(2), Dash, D(2), Space, D(2), Dot, D(2), Dot, D(2),
         Under, DP, Dot, WP>> >>

\* the class of characters a token accepts
TokenClass(tok) == IF tok.t \in {"d", "d+"} THEN Digits ELSE WordChars

\* the length of the longest run of characters of class cls in s from pos on
RunLen(s, pos, cls) ==
    CHOOSE k \in 0..(Len(s) - pos + 1) :
        /\ \A i \in pos..(pos + k - 1) : s[i] \in cls
        /\ (pos + k <= Len(s) => s[pos + k] \notin cls)

\* a + quantifier needs one character
AtLeastOne(k) == IF k >= 1 THEN k ELSE -1

\* the number of characters token tok takes at pos of s, -1 when it does not
\* match.  A greedy quantifier takes the whole run: in each alternative the
\* token after (\d+) or (\w+) is a literal outside the class or the end of
\* the pattern, so backtracking never yields another match.
Take(tok, s, pos) ==
    CASE tok.t = "lit" ->
            IF pos + Len(tok.s) - 1 <= Len(s)
               /\ SubSeq(s, pos, pos + Len(tok.s) - 1) = tok.s
            THEN Len(tok.s) ELSE -1
      [] tok.t \in {"d", "w"} ->
            IF pos + tok.n - 1 <= Len(s)
               /\ \A i \in pos..(pos + tok.n - 1) : s[i] \in TokenClass(tok)
            THEN tok.n ELSE -1
      [] OTHER -> AtLeastOne(RunLen(s, pos, TokenClass(tok)))

NoMatch == [ok |-> FALSE, groups |-> <<>>, alt |-> 0, end |-> 0]

\* match the tokens toks against s from pos on; groups collects the captures
RECURSIVE MatchFrom(_, _, _, _)
MatchFrom(toks, s, pos, groups) ==
    IF toks = <<>> THEN [ok |-> TRUE, groups |-> groups, alt |-> 0, end |-> pos - 1]
    ELSE LET tok == Head(toks)
             k == Take(tok, s, pos)
         IN  IF k < 0 THEN NoMatch
             ELSE MatchFrom(Tail(toks), s, pos + k,
                            IF tok.t = "lit" THEN groups
                            ELSE Append(groups, SubSeq(s, pos, pos + k - 1)))

\* re.match(pattern, name): the first alternative that matches a prefix of
\* name (alt is its number, end is match.end()); groups is match.groups()
\* without the None of the other alternatives
FirstMatch(ms) ==
    IF \E k \in DOMAIN ms : ms[k].ok
    THEN [ms[CHOOSE k \in DOMAIN ms : ms[k].ok /\ \A j \in 1..(k - 1) : ~ms[j].ok]
            EXCEPT !.alt = CHOOSE k \in DOMAIN ms :
                                ms[k].ok /\ \A j \in 1..(k - 1) : ~ms[j].ok]
    ELSE NoMatch

ReMatch(name) ==
    FirstMatch([k \in DOMAIN pattern |-> MatchFrom(pattern[k], name, 1, <<>>)])

(***************************************************************************)
(* parse_filename                                                          *)
(***************************************************************************)
None == [tag |-> "None"]
ValueError == [tag |-> "ValueError"]

FileMetaData(year, month, day, hour, minute, second, extension) ==
    [tag |-> "FileMetaData", year |-> year, month |-> month, day |-> day,
     hour |-> hour, minute |-> minute, second |-> second,
     extension |-> extension]

WA == <<"W", "A">>

\* lines 51-62, given the match and filename.suffix
metadata_of(filename, groups, suffix) ==
    IF Contains(filename, WA)
    THEN FileMetaData(IntOf(groups[1]), IntOf(groups[2]), IntOf(groups[3]),
                      IntOf(groups[5]), 0, 0, DropFirst(suffix))
    ELSE IF Len(groups) = 6 /\ Contains(filename, <<"V", "I", "D">>)
    THEN IF IsInt(groups[4])
         THEN FileMetaData(IntOf(groups[1]), IntOf(groups[2]), IntOf(groups[3]),
                           IntOf(groups[4]),
                           IntOf(SubSeq(groups[5], 1, 2)),
                           IntOf(SubSeq(groups[5], 3, Len(groups[5]))),
                           DropFirst(suffix))
         ELSE ValueError
    ELSE FileMetaData(IntOf(groups[1]), IntOf(groups[2]), IntOf(groups[3]),
                      IntOf(groups[4]), IntOf(groups[5]), IntOf(groups[6]),
                      DropFirst(suffix))

\* lines 48-50, then the rest
parse_match(filename, match) ==
    IF ~match.ok THEN None
    ELSE metadata_of(filename, match.groups, Suffix(filename))

parse_filename(filename) == parse_match(filename, ReMatch(filename))

(***************************************************************************)
(* The directory.  A directory is a function from the names of its entries *)
(* to entries; an entry is a regular file, a subdirectory or a symbolic    *)
(* link whose target is a name looked up in the same directory.            *)
(***************************************************************************)
File == [kind |-> "file", target |-> <<>>]
Subdir == [kind |-> "dir", target |-> <<>>]
Symlink(target) == [kind |-> "symlink", target |-> target]

\* bound of the model: the number of symbolic links followed (the kernel's
\* limit is larger; a longer chain ends in ELOOP, which pathlib reports as
\* "does not exist")
MaxLinkDepth == 2

\* the kind of the entry that name resolves to, following symbolic links as
\* os.stat does; "none" for a missing name or a dangling link
RECURSIVE Resolve(_, _, _)
Resolve(dir, name, fuel) ==
    IF name \notin DOMAIN dir THEN "none"
    ELSE IF dir[name].kind # "symlink" THEN dir[name].kind
    ELSE IF fuel = 0 THEN "none"
    ELSE Resolve(dir, dir[name].target, fuel - 1)

\* Path.is_file(): a regular file, or a symbolic link to one
is_file(dir, name) == Resolve(dir, name, MaxLinkDepth) = "file"

\* Path.exists(): follows symbolic links, so False for a dangling link
exists(dir, name) == Resolve(dir, name, MaxLinkDepth) # "none"

\* the function f without the argument x
Without(f, x) == [y \in DOMAIN f \ {x} |-> f[y]]

\* the function f with f[x] = v added or replaced
With(f, x, v) == [y \in DOMAIN f \cup {x} |-> IF y = x THEN v ELSE f[y]]

\* Path.rename(), os.rename on POSIX: the entry itself moves (a link is not
\* followed); an existing destination that is not a directory is replaced
\* silently; a missing source or a directory at the destination is an OSError
rename_fails(dir, src, dst) ==
    \/ src \notin DOMAIN dir
    \/ dst \in DOMAIN dir /\ dir[dst].kind = "dir" /\ dir[src].kind # "dir"
    \/ dst \in DOMAIN dir /\ dir[dst].kind # "dir" /\ dir[src].kind = "dir"

rename(dir, src, dst) ==
    IF src = dst THEN dir ELSE With(Without(dir, src), dst, dir[src])

(***************************************************************************)
(* get_filename_format and get_unique_filepath                             *)
(***************************************************************************)
\* the stop of range(1, 100)
RangeStop == 100

Exception == <<"Could not find a unique filename">>

\* mutant: the target written in the layout of the dotted grammar
get_filename_format_dotted(metadata) ==
    Fmt(metadata.year, 4) \o <<"-">> \o Fmt(metadata.month, 2) \o <<"-">>
    \o Fmt(metadata.day, 2) \o <<" ">> \o Fmt(metadata.hour, 2) \o <<".">>
    \o Fmt(metadata.minute, 2) \o <<".">> \o Fmt(metadata.second, 2)
    \o <<".">> \o metadata.extension

get_filename_format(metadata) ==
    Fmt(metadata.year, 4) \o <<"-">> \o Fmt(metadata.month, 2) \o <<"-">>
    \o Fmt(metadata.day, 2) \o <<"_">> \o Fmt(metadata.hour, 2) \o <<"-">>
    \o Fmt(metadata.minute, 2) \o <<"-">> \o Fmt(metadata.second, 2)
    \o <<".">> \o metadata.extension

\* base_filepath.with_name(f"{base_filepath.stem}_{i}{base_filepath.suffix}")
with_suffix_number(base_filepath, i) ==
    Stem(base_filepath) \o <<"_">> \o Decimal(i) \o Suffix(base_filepath)

\* "if not new_filepath.exists()" for the i-th new_filepath
is_free(dir, base_filepath, i) == ~exists(dir, with_suffix_number(base_filepath, i))

\* mutant: the loop is range(1, 99)
unique_from_short(dir, base_filepath) ==
    IF \E i \in 1..(RangeStop - 2) : is_free(dir, base_filepath, i)
    THEN with_suffix_number(base_filepath,
            CHOOSE i \in 1..(RangeStop - 2) :
                /\ is_free(dir, base_filepath, i)
                /\ \A j \in 1..(i - 1) : ~is_free(dir, base_filepath, j))
    ELSE Exception

\* the for loop over range(1, 100) returns at the first i whose path is
\* free; when there is none it ends and the exception is raised
unique_from(dir, base_filepath) ==
    IF \E i \in 1..(RangeStop - 1) : is_free(dir, base_filepath, i)
    THEN with_suffix_number(base_filepath,
            CHOOSE i \in 1..(RangeStop - 1) :
                /\ is_free(dir, base_filepath, i)
                /\ \A j \in 1..(i - 1) : ~is_free(dir, base_filepath, j))
    ELSE Exception

get_unique_filepath(dir, metadata) ==
    unique_from(dir, get_filename_format(metadata))

(***************************************************************************)
(* State.  A run of main()/rename_files is a process r; several runs and   *)
(* another writer may work on the directories of fs.                       *)
(***************************************************************************)
VARIABLES
    fs,            \* directory id -> directory
    fs0,           \* history: fs when the first run started
    args,          \* run -> [rename, yes]: the parsed command line
    pc,            \* run -> "off", "start", "loop", "confirm", "done"
    directory,     \* run -> the directory id given on the command line
    todo,          \* run -> the entries of directory.iterdir() not yet visited
    filepath,      \* run -> the entry of the current loop iteration
    new_filepath,  \* run -> the path get_unique_filepath returned for it
    rc,            \* run -> the return value of rename_files, -1 while running
    answer,        \* run -> what input() returned last, NoAnswer if not asked
    renamed,       \* run -> history: the renames performed, in order
    runs,          \* run -> the number of invocations started
    last_rc,       \* run -> the return value of the previous invocation
    writes,        \* the number of entries the other writer has created
    filename,      \* the argument of a single call of parse_filename
    parsed,        \* its result
    metadata,      \* the argument of a single call of get_unique_filepath
    planned        \* its result, NoPath before the call

vars == <<fs, fs0, args, pc, directory, todo, filepath, new_filepath, rc, answer,
          renamed, runs, last_rc, writes, filename, parsed, metadata, planned>>

run_vars == <<args, pc, directory, todo, filepath, new_filepath, rc, answer,
              renamed, runs, last_rc>>

call_vars == <<filename, parsed, metadata, planned>>

Runs == {"r1", "r2"}
Dirs == {"d1", "d2"}

NoAnswer == <<"<no prompt>">>
EOFError == <<"<EOF>">>
NoPath == <<>>
Pending == [tag |-> "pending"]

(***************************************************************************)
(* rename_files, one step per loop iteration half: the iteration up to the *)
(* existence probe, and the confirmation with the rename.  Other processes *)
(* may run between the two.                                                *)
(***************************************************************************)
\* the variants get_unique_filepath probes for the timestamp of the examples
BlockBase == <<"2", "0", "2", "1", "-", "0", "1", "-", "0", "1", "_",
               "0", "1", "-", "0", "1", "-", "0", "1", ".", "j", "p", "g">>

BlockName(i) == with_suffix_number(BlockBase, i)

BlockNames == {BlockName(i) : i \in 1..(RangeStop - 1)}

BlockIndex == [n \in BlockNames |-> CHOOSE i \in 1..(RangeStop - 1) : BlockName(i) = n]

\* The entries iterdir() may yield next.  The order of a listing is
\* arbitrary; the numbered variants of BlockBase, which the loop skips
\* without effect, are taken among themselves in ascending order, and in
\* any interleaving with the other entries.
FirstOf(numbers) == {i \in numbers : \A j \in numbers : i <= j}

NextEntries(remaining) ==
    (remaining \ BlockNames)
    \cup {BlockName(i) : i \in FirstOf({BlockIndex[f] : f \in remaining \cap BlockNames})}

\* main (lines 142-147) and the call of directory.iterdir(): the listing is
\* read when the loop starts
Main(r) ==
    /\ pc[r] = "start"
    /\ todo' = [todo EXCEPT ![r] = DOMAIN fs[directory[r]]]
    /\ pc' = [pc EXCEPT ![r] = "loop"]
    /\ UNCHANGED <<fs, fs0, args, directory, filepath, new_filepath, rc, answer,
                   renamed, runs, last_rc, writes, call_vars>>

\* the except branch: print the exception, return 1
Fail(r) ==
    /\ rc' = [rc EXCEPT ![r] = 1]
    /\ pc' = [pc EXCEPT ![r] = "done"]

\* lines 84-89 for one entry: "skip" for continue, "raise" for an exception,
\* or the new path
Planned(dir, f, md) ==
    IF ~is_file(dir, f) \/ md = None THEN [to |-> "skip", path |-> NoPath]
    ELSE IF md = ValueError THEN [to |-> "raise", path |-> NoPath]
    ELSE [to |-> "confirm", path |-> get_unique_filepath(dir, md)]

Outcome(plan) ==
    IF plan.path = Exception THEN [to |-> "raise", path |-> NoPath] ELSE plan

\* where the iteration goes on
Goto(r, plan) ==
    /\ new_filepath' = [new_filepath EXCEPT ![r] = plan.path]
    /\ IF plan.to = "skip" THEN UNCHANGED <<pc, rc>>
       ELSE IF plan.to = "raise" THEN Fail(r)
       ELSE /\ pc' = [pc EXCEPT ![r] = "confirm"]
            /\ UNCHANGED rc

\* lines 83-89: the next entry, is_file, parse_filename, get_unique_filepath
Probe(r) ==
    /\ pc[r] = "loop"
    /\ \E f \in NextEntries(todo[r]) :
        /\ todo' = [todo EXCEPT ![r] = @ \ {f}]
        /\ filepath' = [filepath EXCEPT ![r] = f]
        /\ Goto(r, Outcome(Planned(fs[directory[r]], f, parse_filename(f))))
    /\ UNCHANGED <<fs, fs0, args, directory, answer, renamed, runs, last_rc,
                   writes, call_vars>>

\* what input() may return: a line, or EOFError
Answers == {<<"y">>, <<"Y">>, <<"n">>, <<>>, <<"y", "e", "s">>, EOFError}

\* mutant: the condition without args.rename
should_rename_unguarded(a, line) == a.yes \/ Lower(line) = <<"y">>

\* lines 92-95: the condition of the if; a is what input() returns when it
\* is called
should_rename(a, line) == a.rename /\ (a.yes \/ Lower(line) = <<"y">>)

\* input() is called only when --rename is given without --yes
Prompted(a) == a.rename /\ ~a.yes

\* mutant: the bare names are renamed, in whichever directory holds src
rename_in_any(fsys, d, src, dst) ==
    [e \in DOMAIN fsys |->
        IF src \in DOMAIN fsys[e] THEN rename(fsys[e], src, dst) ELSE fsys[e]]

\* line 96: filepath and new_filepath are paths inside the directory d
rename_in(fsys, d, src, dst) == [fsys EXCEPT ![d] = rename(@, src, dst)]

\* the rename of the current entry, after the condition held
DoRename(r, d) ==
    IF rename_fails(fs[d], filepath[r], new_filepath[r])
    THEN /\ Fail(r)
         /\ UNCHANGED <<fs, renamed>>
    ELSE /\ fs' = rename_in(fs, d, filepath[r], new_filepath[r])
         /\ renamed' = [renamed EXCEPT ![r] =
               Append(@, [src |-> filepath[r], dst |-> new_filepath[r],
                          occupied |-> new_filepath[r] \in DOMAIN fs[d]])]
         /\ pc' = [pc EXCEPT ![r] = "loop"]
         /\ UNCHANGED rc

\* lines 92-96: the condition of the if, then filepath.rename(new_filepath)
Confirm(r) ==
    /\ pc[r] = "confirm"
    /\ \E a \in IF Prompted(args[r]) THEN Answers ELSE {NoAnswer} :
        /\ answer' = [answer EXCEPT ![r] = a]
        /\ IF a = EOFError
           THEN /\ Fail(r)
                /\ UNCHANGED <<fs, renamed>>
           ELSE IF should_rename(args[r], a)
           THEN DoRename(r, directory[r])
           ELSE /\ pc' = [pc EXCEPT ![r] = "loop"]
                /\ UNCHANGED <<fs, renamed, rc>>
    /\ UNCHANGED <<fs0, args, directory, todo, filepath, new_filepath, runs,
                   last_rc, writes, call_vars>>

\* line 102: the loop is over, return 0
Return(r) ==
    /\ pc[r] = "loop"
    /\ todo[r] = {}
    /\ rc' = [rc EXCEPT ![r] = 0]
    /\ pc' = [pc EXCEPT ![r] = "done"]
    /\ UNCHANGED <<fs, fs0, args, directory, todo, filepath, new_filepath, answer,
                   renamed, runs, last_rc, writes, call_vars>>

\* bound of the model: the invocations of one run process
MaxRuns == 2

\* the same command line is run again on the same directory
Rerun(r) ==
    /\ pc[r] = "done"
    /\ runs[r] < MaxRuns
    /\ runs' = [runs EXCEPT ![r] = @ + 1]
    /\ last_rc' = [last_rc EXCEPT ![r] = rc[r]]
    /\ rc' = [rc EXCEPT ![r] = -1]
    /\ pc' = [pc EXCEPT ![r] = "start"]
    /\ filepath' = [filepath EXCEPT ![r] = NoPath]
    /\ new_filepath' = [new_filepath EXCEPT ![r] = NoPath]
    /\ answer' = [answer EXCEPT ![r] = NoAnswer]
    /\ renamed' = [renamed EXCEPT ![r] = <<>>]
    /\ UNCHANGED <<fs, fs0, args, directory, todo, writes, call_vars>>

(***************************************************************************)
(* File names of the examples                                              *)
(***************************************************************************)
\* "2021-01-01 01.01.01.jpg": grammar 1
NameDotted ==
    <<"2", "0", "2", "1", "-", "0", "1", "-", "0", "1", " ", "0", "1", ".",
      "0", "1", ".", "0", "1", ".", "j", "p", "g">>

\* "IMG_20210101_010101_123.jpg": grammar 2, the same timestamp
NameImg ==
    <<"I", "M", "G", "_", "2", "0", "2", "1", "0", "1", "0", "1", "_", "0",
      "1", "0", "1", "0", "1", "_", "1", "2", "3", ".", "j", "p", "g">>

\* "random.txt": no grammar
NameRandom ==
    <<"r", "a", "n", "d", "o", "m", ".", "t", "x", "t">>

\* "VID_20210101_AB0000.mp4": grammar 5 with a tag that is not WA
NameVidTag ==
    <<"V", "I", "D", "_", "2", "0", "2", "1", "0", "1", "0", "1", "_", "A",
      "B", "0", "0", "0", "0", ".", "m", "p", "4">>

\* "PXL_20210101_010101123.jpg": grammar 3, used for a subdirectory
NamePxlDir ==
    <<"P", "X", "L", "_", "2", "0", "2", "1", "0", "1", "0", "1", "_", "0",
      "1", "0", "1", "0", "1", "1", "2", "3", ".", "j", "p", "g">>

\* "IMG_20210101_010101_9.jpg": grammar 2, used for a symbolic link
NameLink ==
    <<"I", "M", "G", "_", "2", "0", "2", "1", "0", "1", "0", "1", "_", "0",
      "1", "0", "1", "0", "1", "_", "9", ".", "j", "p", "g">>

\* "Screenshot from 2022-02-02 02-02-02.png": grammar 4, another timestamp
NameShot ==
    <<"S", "c", "r", "e", "e", "n", "s", "h", "o", "t", " ", "f", "r", "o",
      "m", " ", "2", "0", "2", "2", "-", "0", "2", "-", "0", "2", " ", "0",
      "2", "-", "0", "2", "-", "0", "2", ".", "p", "n", "g">>

\* "gone": a name no directory holds
NameMissing ==
    <<"g", "o", "n", "e">>

\* "DSC_0001.jpg": no grammar
NameDsc ==
    <<"D", "S", "C", "_", "0", "0", "0", "1", ".", "j", "p", "g">>

(***************************************************************************)
(* Spec: one process runs the command on directory d1, then runs it again; *)
(* nothing else writes.                                                    *)
(***************************************************************************)
\* bound of the model: the entries of the initial directory
MaxFiles == 3

\* the entries an initial directory is drawn from
Pool ==
    {[name |-> NameDotted, entry |-> File],
     [name |-> NameImg, entry |-> File],
     [name |-> NameRandom, entry |-> File],
     [name |-> BlockName(1), entry |-> File],
     [name |-> BlockName(1), entry |-> Subdir],
     [name |-> BlockName(1), entry |-> Symlink(NameMissing)],
     [name |-> NameVidTag, entry |-> File],
     [name |-> NamePxlDir, entry |-> Subdir],
     [name |-> NameLink, entry |-> Symlink(BlockName(1))],
     [name |-> NameLink, entry |-> Symlink(NameImg)],
     [name |-> BlockBase, entry |-> File]}

\* the directory holding the entries of S
DirOf(S) == [n \in {e.name : e \in S} |-> (CHOOSE e \in S : e.name = n).entry]

EmptyDir == DirOf({})

InitialDirs ==
    {DirOf(S) : S \in {T \in SUBSET Pool :
                        /\ Cardinality(T) <= MaxFiles
                        /\ Cardinality({e.name : e \in T}) = Cardinality(T)}}

ArgSets == [rename : BOOLEAN, yes : BOOLEAN]

DryRun == [rename |-> FALSE, yes |-> FALSE]

\* the run variables with the runs of `active` about to start, the others
\* never started
InitRuns(active) ==
    /\ pc = [r \in Runs |-> IF r \in active THEN "start" ELSE "off"]
    /\ todo = [r \in Runs |-> {}]
    /\ filepath = [r \in Runs |-> NoPath]
    /\ new_filepath = [r \in Runs |-> NoPath]
    /\ rc = [r \in Runs |-> -1]
    /\ answer = [r \in Runs |-> NoAnswer]
    /\ renamed = [r \in Runs |-> <<>>]
    /\ runs = [r \in Runs |-> IF r \in active THEN 1 ELSE 0]
    /\ last_rc = [r \in Runs |-> -1]
    /\ writes = 0

InitCalls ==
    /\ filename = NoPath
    /\ parsed = Pending
    /\ metadata = Pending
    /\ planned = NoPath

Init ==
    /\ \E dir \in InitialDirs : fs = [d \in Dirs |-> IF d = "d1" THEN dir ELSE EmptyDir]
    /\ fs0 = fs
    /\ \E a \in ArgSets : args = [r \in Runs |-> IF r = "r1" THEN a ELSE DryRun]
    /\ directory = [r \in Runs |-> "d1"]
    /\ InitRuns({"r1"})
    /\ InitCalls

Next ==
    \E r \in Runs : Main(r) \/ Probe(r) \/ Confirm(r) \/ Return(r) \/ Rerun(r)

Spec == Init /\ [][Next]_vars

(***************************************************************************)
(* SpecParse: single calls of parse_filename on generated file names.      *)
(***************************************************************************)
\* timestamps <<year, month, day, hour, minute, second>>; the second one
\* has six different fields, the last one is out of range
Stamps == {<<2021, 1, 1, 1, 1, 1>>, <<1999, 12, 31, 23, 59, 58>>,
           <<2021, 13, 32, 24, 60, 61>>}

Extensions == {<<"j", "p", "g">>, <<"m", "p", "4">>, <<"W", "A", "V">>,
               <<"J", "P", "E", "G">>}

\* values of the (\d+) groups and of the (\d{3}) groups
Ordinals == {<<"1">>, <<"1", "2", "3">>, <<"0", "0", "1", "2">>}
Millis == {<<"1", "2", "3">>, <<"0", "0", "7">>}

\* values of the (\w{2}) and (\d{4}) groups of the video grammar
Tags == {<<"W", "A">>, <<"A", "B">>, <<"1", "2">>, <<"_", "x">>}
Counters == {<<"0", "0", "0", "0">>, <<"0", "0", "1", "2">>, <<"1", "2", "3", "4">>}

\* what may follow a name of a grammar
Trailers == {<<>>, <<"~">>, <<".", "b", "a", "k">>, <<".">>}

Two(n) == Fmt(n, 2)

\* YYYY<a>MM<a>DD<b>HH<c>MM<c>SS for the timestamp ts
Stamp(ts, a, b, c) ==
    Fmt(ts[1], 4) \o a \o Two(ts[2]) \o a \o Two(ts[3]) \o b
    \o Two(ts[4]) \o c \o Two(ts[5]) \o c \o Two(ts[6])

Chars(tok) == tok.s

\* a name of grammar k (k # 5) for the timestamp ts, the 3-digit group ms,
\* the numeric suffix ord and the extension ext
GrammarName(k, ts, ms, ord, ext) ==
    CASE k = 1 -> Stamp(ts, <<"-">>, <<" ">>, <<".">>) \o <<".">> \o ext
      [] k = 2 -> Chars(IMG) \o Stamp(ts, <<>>, <<"_">>, <<>>) \o <<"_">> \o ord
                  \o <<".">> \o ext
      [] k = 3 -> Chars(PXL) \o Stamp(ts, <<>>, <<"_">>, <<>>) \o ord \o <<".">> \o ext
      [] k = 4 -> Chars(Screenshot) \o Stamp(ts, <<"-">>, <<" ">>, <<"-">>)
                  \o <<".">> \o ext
      [] k = 6 -> Chars(PXL) \o Stamp(ts, <<>>, <<"_">>, <<>>) \o ms \o <<".">> \o ext
      [] k = 7 -> Chars(IMG) \o Stamp(ts, <<"-">>, <<"-">>, <<"-">>) \o <<"-">> \o ms
                  \o <<".">> \o ext
      [] k = 8 -> Chars(IMG) \o Stamp(ts, <<"-">>, <<"-">>, <<"-">>) \o <<"-">> \o ms
                  \o <<"-">> \o ord \o <<".">> \o ext
      [] k = 9 -> Stamp(ts, <<"-">>, <<" ">>, <<".">>) \o <<"_">> \o ord
                  \o <<".">> \o ext

\* a name of grammar 5: VID_YYYYMMDD_<tag><counter>.<ext>
VideoName(ts, tag, counter, ext) ==
    Chars(VID) \o Fmt(ts[1], 4) \o Two(ts[2]) \o Two(ts[3]) \o <<"_">> \o tag
    \o counter \o <<".">> \o ext

PhotoGrammars == {1, 2, 3, 4, 6, 7, 8, 9}

PhotoNames ==
    {GrammarName(k, ts, ms, ord, ext) :
        k \in PhotoGrammars, ts \in Stamps, ms \in Millis, ord \in Ordinals,
        ext \in Extensions}

VideoNames ==
    {VideoName(ts, tag, counter, ext) :
        ts \in Stamps, tag \in Tags, counter \in Counters, ext \in Extensions}

\* the names get_unique_filepath produces for these timestamps
PlannerNames ==
    {with_suffix_number(
        get_filename_format(FileMetaData(ts[1], ts[2], ts[3], ts[4], ts[5], ts[6], ext)),
        i) : ts \in Stamps, ext \in Extensions, i \in {1, 2, 10, 99}}
    \cup {get_filename_format(
            FileMetaData(ts[1], ts[2], ts[3], ts[4], ts[5], ts[6], ext)) :
            ts \in Stamps, ext \in Extensions}

\* names cut short, and names of no grammar
OtherNames ==
    {NameRandom, NameDsc, NameMissing}
    \cup {SubSeq(n, 1, Len(n) - 4) : n \in PhotoNames \cup VideoNames}

FileNames ==
    {n \o t : n \in PhotoNames \cup VideoNames, t \in Trailers}
    \cup PlannerNames \cup OtherNames

InitIdle ==
    /\ fs = [d \in Dirs |-> EmptyDir]
    /\ fs0 = fs
    /\ args = [r \in Runs |-> DryRun]
    /\ directory = [r \in Runs |-> "d1"]
    /\ InitRuns({})

InitParse ==
    /\ InitIdle
    /\ filename \in FileNames
    /\ parsed = Pending
    /\ metadata = Pending
    /\ planned = NoPath

\* one call: metadata = parse_filename(filepath)
Parse ==
    /\ parsed = Pending
    /\ parsed' = parse_filename(filename)
    /\ UNCHANGED <<fs, fs0, run_vars, writes, filename, metadata, planned>>

NextParse == Parse

SpecParse == InitParse /\ [][NextParse]_vars

(***************************************************************************)
(* SpecPlan: single calls of get_unique_filepath on generated directories. *)
(***************************************************************************)
MetaOf(ts, ext) == FileMetaData(ts[1], ts[2], ts[3], ts[4], ts[5], ts[6], ext)

PlanInputs ==
    {MetaOf(<<2021, 1, 1, 1, 1, 1>>, <<"j", "p", "g">>),
     MetaOf(<<1999, 12, 31, 23, 59, 58>>, <<"m", "p", "4">>)}

\* bound of the model: how far behind the first free variant the directory
\* may hold further variants
MaxBeyond == 2

\* the directory of regular files holding the variants _1 .. _k of the
\* canonical name of md, the variants numbered in beyond, the canonical
\* name itself if base, and one unrelated file
PlanDir(md, k, beyond, base) ==
    [n \in {with_suffix_number(get_filename_format(md), i) :
                i \in (1..k) \cup (beyond \cap (1..(RangeStop - 1)))}
           \cup (IF base THEN {get_filename_format(md)} ELSE {})
           \cup {NameRandom} |-> File]

InitPlan ==
    /\ metadata \in PlanInputs
    /\ \E k \in 0..(RangeStop - 1), base \in BOOLEAN :
       \E beyond \in SUBSET ((k + 2)..(k + 1 + MaxBeyond)) :
          fs = [d \in Dirs |-> IF d = "d1" THEN PlanDir(metadata, k, beyond, base)
                               ELSE EmptyDir]
    /\ fs0 = fs
    /\ args = [r \in Runs |-> DryRun]
    /\ directory = [r \in Runs |-> "d1"]
    /\ InitRuns({})
    /\ filename = NoPath
    /\ parsed = Pending
    /\ planned = NoPath

\* one call: new_filepath = get_unique_filepath(directory, metadata); the
\* exception is recorded as the result
Plan ==
    /\ planned = NoPath
    /\ metadata # Pending
    /\ planned' = get_unique_filepath(fs["d1"], metadata)
    /\ UNCHANGED <<fs, fs0, run_vars, writes, filename, parsed, metadata>>

NextPlan == Plan

SpecPlan == InitPlan /\ [][NextPlan]_vars

(***************************************************************************)
(* SpecBatch: one run on a directory in which every variant of BlockBase   *)
(* is taken.                                                               *)
(***************************************************************************)
FullBlock == {[name |-> n, entry |-> File] : n \in BlockNames}

BatchPool ==
    {[name |-> NameDotted, entry |-> File],
     [name |-> NameShot, entry |-> File],
     [name |-> NameRandom, entry |-> File]}

InitBatch ==
    /\ \E S \in SUBSET BatchPool :
          fs = [d \in Dirs |-> IF d = "d1" THEN DirOf(FullBlock \cup S) ELSE EmptyDir]
    /\ fs0 = fs
    /\ \E a \in ArgSets : args = [r \in Runs |-> IF r = "r1" THEN a ELSE DryRun]
    /\ directory = [r \in Runs |-> "d1"]
    /\ InitRuns({"r1"})
    /\ InitCalls

NextBatch ==
    \E r \in Runs : Main(r) \/ Probe(r) \/ Confirm(r) \/ Return(r)

SpecBatch == InitBatch /\ [][NextBatch]_vars

(***************************************************************************)
(* SpecConc: two runs, on the same directory or on two directories, and    *)
(* another process that creates files.                                     *)
(***************************************************************************)
\* bound of the model: the files the other process creates
MaxWrites == 1

\* the names the other process may create
WriterNames == {BlockName(1), BlockName(2)}

\* another process creates a regular file in directory d, a directory some
\* run works on
Write(d) ==
    /\ writes < MaxWrites
    /\ \E n \in WriterNames \ DOMAIN fs[d] :
          fs' = [fs EXCEPT ![d] = With(@, n, File)]
    /\ writes' = writes + 1
    /\ UNCHANGED <<fs0, run_vars, call_vars>>

ConcDirs ==
    {DirOf({[name |-> NameDotted, entry |-> File]}),
     DirOf({[name |-> NameDotted, entry |-> File], [name |-> NameImg, entry |-> File]})}

\* run r1 with or without --yes on d1, run r2 with --yes on d1 (d2 is then
\* empty) or on d2
InitConc ==
    /\ \E d \in Dirs : directory = [r \in Runs |-> IF r = "r1" THEN "d1" ELSE d]
    /\ \E dir1 \in ConcDirs, dir2 \in ConcDirs \cup {EmptyDir} :
          /\ dir2 = EmptyDir <=> directory["r2"] = "d1"
          /\ fs = [d \in Dirs |-> IF d = "d1" THEN dir1 ELSE dir2]
    /\ fs0 = fs
    /\ \E y1 \in BOOLEAN :
          args = [r \in Runs |-> [rename |-> TRUE, yes |-> IF r = "r1" THEN y1 ELSE TRUE]]
    /\ InitRuns(Runs)
    /\ InitCalls

NextConc ==
    \/ \E r \in Runs : Main(r) \/ Probe(r) \/ Confirm(r) \/ Return(r)
    \/ \E d \in {directory[r] : r \in Runs} : Write(d)

SpecConc == InitConc /\ [][NextConc]_vars

(***************************************************************************)
(* Properties                                                              *)
(***************************************************************************)
\* the canonical name YYYY-MM-DD_HH-MM-SS.<ext> and its variant _i, as the
\* specification writes them
CanonicalName(md) ==
    Stamp(<<md.year, md.month, md.day, md.hour, md.minute, md.second>>,
          <<"-">>, <<"_">>, <<"-">>) \o <<".">> \o md.extension

VariantName(md, i) ==
    Stamp(<<md.year, md.month, md.day, md.hour, md.minute, md.second>>,
          <<"-">>, <<"_">>, <<"-">>) \o <<"_">> \o Decimal(i) \o <<".">> \o md.extension

\* the numbers i in 1..99 whose variant is an entry of the directory
TakenVariants(dir, md) == {i \in 1..99 : VariantName(md, i) \in DOMAIN dir}

\* result is what C4 asks for when the variants numbered in taken are entries
FirstFreeOf(md, taken, result) ==
    /\ \A k \in 0..98 :
          ((1..k) \subseteq taken /\ (k + 1) \notin taken)
          => result = VariantName(md, k + 1)
    /\ taken = 1..99 => result = Exception

\* name is, as a whole, of the shape of one of the nine grammars
WholeShape(name) ==
    \E k \in DOMAIN pattern :
        /\ MatchFrom(pattern[k], name, 1, <<>>).ok
        /\ MatchFrom(pattern[k], name, 1, <<>>).end = Len(name)

\* the six numeric fields of a record
Fields(md) == <<md.year, md.month, md.day, md.hour, md.minute, md.second>>

\* every symbolic link of dir resolves
AllLinksResolve(dir) ==
    \A n \in DOMAIN dir : dir[n].kind = "symlink" => exists(dir, n)

\* C1: with no other writer, no rename of a run goes onto a name that is an
\* entry of the directory at that moment, the renames of one run have
\* pairwise different destinations, and the number of entries of the
\* directory stays what it was.
C1_NoRenameOntoOccupied ==
    /\ \A r \in Runs : \A i \in DOMAIN renamed[r] :
          /\ ~renamed[r][i].occupied
          /\ \A j \in DOMAIN renamed[r] :
                j # i => renamed[r][j].dst # renamed[r][i].dst
    /\ Cardinality(DOMAIN fs["d1"]) = Cardinality(DOMAIN fs0["d1"])

\* C2 as stated: a step changes the directory only if it is the
\* confirmation step of a run started with --rename and either --yes or
\* the answer "y" to this file's prompt.
C2_OnlyOnLowercaseY ==
    [][fs' # fs =>
        \E r \in Runs : /\ pc[r] = "confirm"
                        /\ args[r].rename
                        /\ (args[r].yes \/ answer'[r] = <<"y">>)]_vars

\* C2 amended: the same, the answer being "y" or "Y".
C2_OnlyWhenConfirmed ==
    [][fs' # fs =>
        \E r \in Runs : /\ pc[r] = "confirm"
                        /\ args[r].rename
                        /\ (args[r].yes \/ answer'[r] \in {<<"y">>, <<"Y">>})]_vars

\* C2 witness: a prompt was answered "n" for a file with a planned target,
\* and the file is still there in the unchanged directory.
C2_DeclinedLeavesFile ==
    /\ answer["r1"] = <<"n">>
    /\ pc["r1"] = "loop"
    /\ new_filepath["r1"] # NoPath
    /\ filepath["r1"] \in DOMAIN fs["d1"]
    /\ fs = fs0

\* C3: get_unique_filepath returns the canonical name whenever the
\* directory has no entry of that name, and a suffixed variant only when
\* it has one.
C3_CanonicalWhenFree ==
    planned # NoPath =>
        /\ CanonicalName(metadata) \notin DOMAIN fs["d1"] =>
              planned = CanonicalName(metadata)
        /\ planned # CanonicalName(metadata) =>
              CanonicalName(metadata) \in DOMAIN fs["d1"]

\* C4: for every k in 0..98, if the canonical name and the variants
\* _1.._k are entries and _(k+1) is not, get_unique_filepath returns the
\* variant _(k+1); if the canonical name and all of _1.._99 are entries, it
\* raises the exception.
C4_FirstFreeVariant ==
    (planned # NoPath /\ CanonicalName(metadata) \in DOMAIN fs["d1"]) =>
        FirstFreeOf(metadata, TakenVariants(fs["d1"], metadata), planned)

\* C4 witness: the canonical name and _1.._98 are taken, _99 is free, and
\* the call returned the variant _99.
C4_ReturnsVariant99 ==
    /\ CanonicalName(metadata) \in DOMAIN fs["d1"]
    /\ TakenVariants(fs["d1"], metadata) = 1..98
    /\ planned = VariantName(metadata, 99)

\* C5: for a name of one of the grammars 1-4 and 6-9, with any extension and
\* any numeric suffix, parse_filename returns a record whose year, month,
\* day, hour, minute and second are the numbers written in the name.
C5_PhotoFieldsFromDigits ==
    parsed # Pending =>
        \A k \in PhotoGrammars, ts \in Stamps, ms \in Millis, ord \in Ordinals,
           ext \in Extensions :
            filename = GrammarName(k, ts, ms, ord, ext) =>
                parsed.tag = "FileMetaData" /\ Fields(parsed) = ts

\* C6: for a name VID_YYYYMMDD_<tag><4 digits>.<ext>, parse_filename returns
\* a record with the date of the name and hour = minute = second = 0,
\* whatever the tag and the 4 digits are.
C6_VideoTimeIsZero ==
    parsed # Pending =>
        \A ts \in Stamps, tag \in Tags, counter \in Counters, ext \in Extensions :
            filename = VideoName(ts, tag, counter, ext) =>
                /\ parsed.tag = "FileMetaData"
                /\ Fields(parsed) = <<ts[1], ts[2], ts[3], 0, 0, 0>>

\* C7: parse_filename returns None for every name that is not, as a whole,
\* of the shape of one of the nine grammars.
C7_NoneUnlessWholeShape ==
    (parsed # Pending /\ ~WholeShape(filename)) => parsed = None

\* C8: when rename_files has returned from a run with --rename --yes, every
\* entry of the listing has been visited, and no regular file is left that
\* parses and has a free target, whether or not get_unique_filepath failed
\* for another file.
C8_BatchContinues ==
    (pc["r1"] = "done" /\ args["r1"].rename /\ args["r1"].yes) =>
        /\ todo["r1"] = {}
        /\ \A f \in DOMAIN fs["d1"] :
              Planned(fs["d1"], f, parse_filename(f)).to = "confirm"
              => get_unique_filepath(fs["d1"], parse_filename(f)) = Exception

\* C9: a step changes a directory only if it is a step of the other writer
\* or the rename of a run working on that directory; and with the two runs
\* on different directories and no other writer, no rename goes onto a name
\* that is taken.
C9_RunsTouchOnlyTheirDirectory ==
    [][/\ \A d \in Dirs :
            fs'[d] # fs[d] =>
                \/ writes' # writes
                \/ \E r \in Runs : directory[r] = d /\ renamed'[r] # renamed[r]
       /\ (directory["r1"] # directory["r2"] /\ writes' = 0) =>
            \A r \in Runs : \A i \in DOMAIN renamed'[r] : ~renamed'[r][i].occupied]_vars

\* C9 witness: run r1 asked for confirmation, got "y", and its rename went
\* onto a name that had become an entry after the existence probe.
C9_Overwritten ==
    /\ answer["r1"] = <<"y">>
    /\ renamed["r1"] # <<>>
    /\ renamed["r1"][Len(renamed["r1"])].occupied

=============================================================================
